---- MODULE Spec2Model ----
(***************************************************************************)
(* Model of the UploadManager of src/src/background.js: the registry of   *)
(* upload records (activeUploads), the persisted snapshot                  *)
(* (browserAPI.storage.local, key 'uploads'), and the asynchronous tasks   *)
(* (processUpload / uploadChunks loops and the command handlers), each     *)
(* suspended at one of its await points.  One action is one run of the     *)
(* single-threaded event loop: the code from one await to the next.        *)
(***************************************************************************)
EXTENDS Integers, Sequences, FiniteSets, TLC

\* ----------------------------------------------------------------- bounds
MaxUploads == 2
MaxTasks == 3
MaxRestarts == 1

\* ------------------------------------------------------ program constants
MiB == 1024 * 1024
chunkSize == 5 * 1024 * 1024
SaveEvery == 5

NULL == "null"
Ids == 1..MaxUploads
Tids == 1..MaxTasks

\* Sizes of the files handed to startUpload: empty, and 12 MiB (chunks of 5, 5
\* and 2 MiB, so not a multiple of chunkSize).
FileSizes == {0, 12 * MiB}

\* What startUpload receives as `file`: a Blob/File (has slice) or the plain
\* descriptor object the popup sends through runtime.sendMessage (no slice).
\* resumeUpload passes null.
StartFiles == {"blob", "descriptor"}

VARIABLES
    activeUploads,  \* the ids that are keys of the Map this.activeUploads
    rec,            \* rec[id]: the upload object created for id (the heap object
                    \* the Map entry and every task's `upload` variable refer to)
    storage,        \* the durable snapshot: parsed value of storage key 'uploads'
    saveQueue,      \* storage.local.set calls issued and not yet completed, in order
    tasks,          \* tasks[t]: the suspended async call t (pc = its await point)
    nextId,         \* number of ids generated so far, plus one
    nextTid,        \* number of async calls started so far, plus one
    restarts,       \* number of restarts of the background script
    cancelled,      \* ids for which a cancelUpload call has returned true
    pauseReturned,  \* ids whose last returned pause/resume call was a pauseUpload returning true
    resumedShort,   \* tasks of a resumeUpload that returned true with uploadedBytes < file.size
    deletes,        \* deletes[id]: number of DELETE requests issued to id's session URI
    uiMessage,      \* the uploadUpdated message the last step sent (NoMessage: none)
    hist            \* hist[id]: what the chunk requests of id and their answers were so far

vars == <<activeUploads, rec, storage, saveQueue, tasks, nextId, nextTid, restarts,
          cancelled, pauseReturned, resumedShort, deletes, uiMessage, hist>>

\* -------------------------------------------------------------- records
NoRecord == [status |-> "none", uploadedBytes |-> 0, size |-> 0, sessionUri |-> NULL,
             endTime |-> NULL, error |-> NULL]

NewUpload(size) ==
    [status |-> "initializing", uploadedBytes |-> 0, size |-> size, sessionUri |-> NULL,
     endTime |-> NULL, error |-> NULL]

\* No runtime.sendMessage call.
NoMessage == [id |-> 0, upload |-> NoRecord]

\* The history of an upload for which no chunk request was sent yet.
\*   kept       the history of this upload is being kept
\*   sentEnd    end offset of the last chunk request sent
\*   sentTiled  every chunk request sent started where the one before it ended
\*              (the first at 0)
\*   ackEnd, ackTiled   the same for the chunk requests uploadChunk returned
\*              normally for (status 308, 200 or 201)
\*   finalAck   how the request for the chunk ending at file.size was answered
\*   clean      no failure, pause, cancel or restart has touched the upload
\*   cleanSent  number of chunk requests sent while clean
NoHistory == [kept |-> TRUE, sentEnd |-> 0, sentTiled |-> TRUE, ackEnd |-> 0,
              ackTiled |-> TRUE, finalAck |-> "none", clean |-> TRUE, cleanSent |-> 0]

\* The history of an upload whose requests are not followed.
Unobserved == [NoHistory EXCEPT !.kept = FALSE]

FreeTask == [pc |-> "free", id |-> 0, file |-> NULL, startByte |-> 0, endByte |-> 0]

Min(a, b) == IF a < b THEN a ELSE b

\* file.slice exists only on a Blob; on the plain descriptor and on null the
\* call file.slice(...) throws a TypeError.
HasSlice(file) == file = "blob"

\* A snapshot that leaves out the uploads that are finished.
SnapshotUnfinished(act, r) ==
    [id \in Ids |-> IF id \in act /\ r[id].status # "completed" THEN r[id] ELSE NoRecord]

\* JSON.stringify(Array.from(this.activeUploads.values())): the records of the
\* Map, by value, as they are when the call is made (NoRecord: no entry).
Snapshot(act, r) == [id \in Ids |-> IF id \in act THEN r[id] ELSE NoRecord]

\* The messages of the errors a chunk upload can throw: the two of uploadChunk
\* and the one of a rejected fetch.
ChunkErrors == {"Upload session not found", "Upload failed with status", "Failed to fetch"}

\* error.message.includes('pause'), message by message: none contains it.
ContainsPause == [msg \in ChunkErrors |-> FALSE]

IncludesPause(msg) == ContainsPause[msg]

\* The message of the TypeError that file.slice(...) throws (line 175).
SliceError(file) ==
    IF file = NULL THEN "Cannot read properties of null (reading 'slice')"
    ELSE "file.slice is not a function"

\* ------------------------------------------------ synchronous code paths
\* A context m = [act, rec, q, tk, ui, hist] is the state one run of the event
\* loop works on: the Map's keys, the upload objects, the issued saves, the
\* running task's own record (its locals and the await point it stops at),
\* the message sent to the UI and the history of the requests.

\* The upload of the running task has met a failure.
Unclean(m) == [m EXCEPT !.hist[m.tk.id].clean = @ /\ ~m.hist[m.tk.id].kept]

\* sendUpdateToUI(uploadId), lines 310-320: the message is sent only when the
\* Map has the record.
SendUpdateToUI(m) ==
    IF m.tk.id \in m.act
    THEN [m EXCEPT !.ui = [id |-> m.tk.id, upload |-> m.rec[m.tk.id]]]
    ELSE m

\* savePersistedState, up to its await: the snapshot is serialised and the
\* write is issued.
SavePersistedState(m, tid) ==
    [m EXCEPT !.q = Append(@, [tid |-> tid, snap |-> Snapshot(m.act, m.rec)])]

\* A finalize test that does not look at the byte count.
AllChunksDoneUnchecked(u) == TRUE

\* The test "all chunks are done" of processUpload (line 117).
AllChunksDone(u) == u.uploadedBytes >= u.size

\* processUpload, lines 116-125: after uploadChunks has returned.
Finalize(m, tid) ==
    LET id == m.tk.id IN
    IF AllChunksDone(m.rec[id])
    THEN SavePersistedState(
             [m EXCEPT !.rec[id].status = "completed", !.rec[id].endTime = "set",
                       !.act = @ \cup {id}, !.tk.pc = "doneSave"], tid)
    ELSE [m EXCEPT !.tk = FreeTask]

\* processUpload, lines 127-133: the catch block.
CatchError(m, tid, msg) ==
    LET id == m.tk.id IN
    SavePersistedState(
        [Unclean(m) EXCEPT !.rec[id].status = "error", !.rec[id].error = msg,
                           !.act = @ \cup {id}, !.tk.pc = "errSave"], tid)

\* uploadChunks, lines 192-198: the branch for an error whose message
\* contains 'pause'.
PausedByError(m, tid) ==
    LET id == m.tk.id IN
    SavePersistedState(
        [m EXCEPT !.rec[id].status = "paused", !.act = @ \cup {id},
                  !.tk.pc = "pausedSave"], tid)

\* A catch block that gives the upload up at the first failed chunk.
ChunkCatchFatal(m, tid, msg) == CatchError(m, tid, msg)

\* uploadChunks, lines 191-203: the catch block of the loop body.
ChunkCatch(m, tid, msg) ==
    IF IncludesPause(msg) THEN PausedByError(Unclean(m), tid)
    ELSE [Unclean(m) EXCEPT !.tk.pc = "retryWait"]

\* A loop condition that does not look at the status.
LoopConditionNoStatus(u, startByte) == startByte < u.size

\* The condition of the while loop of uploadChunks (line 173).
LoopCondition(u, startByte) == startByte < u.size /\ u.status = "uploading"

\* An end offset that is not clamped to the file size.
EndByteUnclamped(u, startByte) == startByte + chunkSize

\* The end offset of the chunk that starts at startByte (line 174).
EndByte(u, startByte) == Min(startByte + chunkSize, u.size)

\* uploadChunk, lines 215-225: the PUT for [startByte, endByte) is sent.
RecordSent(m) ==
    LET h == m.hist[m.tk.id] IN
    IF ~h.kept THEN m
    ELSE [m EXCEPT !.hist[m.tk.id] =
            [h EXCEPT !.sentTiled = h.sentTiled /\ m.tk.startByte = h.sentEnd,
                      !.sentEnd = m.tk.endByte,
                      !.cleanSent = IF h.clean THEN h.cleanSent + 1 ELSE h.cleanSent]]

\* uploadChunks, lines 173-178 and uploadChunk, lines 210-225: one evaluation
\* of the loop condition and, when it holds, the code up to the next await.
RunLoop(m, tid) ==
    LET id == m.tk.id
        u  == m.rec[id]
    IN  IF LoopCondition(u, m.tk.startByte)
        THEN IF ~HasSlice(m.tk.file)
             THEN CatchError(m, tid, SliceError(m.tk.file))
             ELSE LET m1 == [m EXCEPT !.tk.endByte = EndByte(u, m.tk.startByte)] IN
                  IF id \notin m.act \/ u.sessionUri = NULL
                  THEN ChunkCatch(m1, tid, "Upload session not found")
                  ELSE RecordSent([m1 EXCEPT !.tk.pc = "chunk"])
        ELSE Finalize(m, tid)

\* uploadChunks, lines 168-171: entry.
UploadChunks(m, tid) ==
    LET id == m.tk.id IN
    IF id \notin m.act \/ m.rec[id].status = "paused"
    THEN Finalize(m, tid)
    ELSE RunLoop([m EXCEPT !.tk.startByte = m.rec[id].uploadedBytes], tid)

\* processUpload(uploadId, file), lines 95-100: up to the await of getAuthToken.
ProcessUpload(m, file) ==
    IF m.tk.id \in m.act
    THEN [m EXCEPT !.tk.pc = "token", !.tk.file = file]
    ELSE [m EXCEPT !.tk = FreeTask]

\* ------------------------------------------------------------ the state
Ctx(t) == [act |-> activeUploads, rec |-> rec, q |-> saveQueue, tk |-> tasks[t],
           ui |-> NoMessage, hist |-> hist]

\* The context in which a command handler starts the async call tk.
CallCtx(tk) == [act |-> activeUploads, rec |-> rec, q |-> saveQueue, tk |-> tk,
                ui |-> NoMessage, hist |-> hist]

\* The context m is what task t leaves behind.
Commit(t, m) ==
    /\ activeUploads' = m.act
    /\ rec' = m.rec
    /\ saveQueue' = m.q
    /\ tasks' = [tasks EXCEPT ![t] = m.tk]
    /\ uiMessage' = m.ui
    /\ hist' = m.hist

Ghosts == <<cancelled, pauseReturned, resumedShort, deletes>>
Counters == <<nextId, nextTid, restarts>>

\* constructor and initialize on a profile with nothing stored: the Map is
\* empty and recoverInterruptedUploads has issued its save.
InitProgram ==
    /\ activeUploads = {}
    /\ rec = [id \in Ids |-> NoRecord]
    /\ storage = [id \in Ids |-> NoRecord]
    /\ saveQueue = <<[tid |-> 0, snap |-> [id \in Ids |-> NoRecord]]>>
    /\ tasks = [t \in Tids |-> FreeTask]
    /\ nextId = 1
    /\ nextTid = 1
    /\ restarts = 0
    /\ cancelled = {}
    /\ pauseReturned = {}
    /\ resumedShort = {}
    /\ deletes = [id \in Ids |-> 0]
    /\ uiMessage = NoMessage

Init ==
    /\ InitProgram
    /\ hist = [id \in Ids |-> Unobserved]

\* ------------------------------------------------------------- commands
\* startUpload(file, folderId), lines 57-80: up to the await of the save.
StartUpload(size, file) ==
    /\ nextId <= MaxUploads
    /\ nextTid <= MaxTasks
    /\ LET id == nextId
           t  == nextTid
           m  == SavePersistedState(
                    [CallCtx([pc |-> "startSave", id |-> id, file |-> file,
                              startByte |-> 0, endByte |-> 0])
                        EXCEPT !.act = @ \cup {id}, !.rec[id] = NewUpload(size)], t)
       IN  Commit(t, m)
    /\ nextId' = nextId + 1
    /\ nextTid' = nextTid + 1
    /\ UNCHANGED <<storage, restarts, Ghosts>>

\* A test that also lets an upload that has not opened its session be paused.
CanPauseStarted(act, r, id) == id \in act /\ r[id].status \in {"uploading", "initializing"}

\* The test of pauseUpload (line 241).
CanPause(act, r, id) == id \in act /\ r[id].status = "uploading"

\* pauseUpload(uploadId), lines 239-248: up to the await of the save, or to
\* `return false`.
PauseUpload(id) ==
    IF CanPause(activeUploads, rec, id)
    THEN /\ nextTid <= MaxTasks
         /\ LET t == nextTid
                m == SavePersistedState(
                        [Unclean(CallCtx([FreeTask EXCEPT !.pc = "pauseSave", !.id = id]))
                            EXCEPT !.act = @ \cup {id}, !.rec[id].status = "paused"], t)
            IN  Commit(t, m)
         /\ nextTid' = nextTid + 1
         /\ UNCHANGED <<storage, nextId, restarts, Ghosts>>
    ELSE UNCHANGED vars

\* A test that also lets a failed upload be resumed.
CanResumeFailed(act, r, id) ==
    id \in act /\ r[id].status \in {"paused", "interrupted", "error"}

\* The test of resumeUpload (line 254).
CanResume(act, r, id) == id \in act /\ r[id].status \in {"paused", "interrupted"}

\* resumeUpload(uploadId), lines 252-265: up to the await of the save, or to
\* `return false`.
ResumeUpload(id) ==
    IF CanResume(activeUploads, rec, id)
    THEN /\ nextTid <= MaxTasks
         /\ LET t == nextTid
                m == SavePersistedState(
                        [CallCtx([FreeTask EXCEPT !.pc = "resumeSave", !.id = id])
                            EXCEPT !.act = @ \cup {id}, !.rec[id].status = "uploading"], t)
            IN  Commit(t, m)
         /\ nextTid' = nextTid + 1
         /\ UNCHANGED <<storage, nextId, restarts, Ghosts>>
    ELSE UNCHANGED vars

\* cancelUpload, lines 287-288: the record is deleted and the save issued.
DeleteAndSave(m, tid) ==
    SavePersistedState([m EXCEPT !.act = @ \ {m.tk.id}, !.tk.pc = "cancelSave"], tid)

\* cancelUpload(uploadId), lines 269-275 and 287-288: up to the await of
\* getAuthToken when the record has a session URI, else up to the await of
\* the save; `return false` when the Map has no such record.
CancelUpload(id) ==
    IF id \in activeUploads
    THEN /\ nextTid <= MaxTasks
         /\ LET t == nextTid
                m == Unclean(CallCtx([FreeTask EXCEPT !.pc = "cancelToken", !.id = id]))
            IN  IF rec[id].sessionUri # NULL
                THEN Commit(t, m)
                ELSE Commit(t, DeleteAndSave(m, t))
         /\ nextTid' = nextTid + 1
         /\ UNCHANGED <<storage, nextId, restarts, Ghosts>>
    ELSE UNCHANGED vars

\* cancelUpload, lines 275-276: getAuthToken has resolved (with a token or
\* with null, the request is sent either way) and the DELETE is issued.
CancelTokenResolved(t) ==
    /\ tasks[t].pc = "cancelToken"
    /\ tasks' = [tasks EXCEPT ![t].pc = "cancelDelete"]
    /\ deletes' = [deletes EXCEPT ![tasks[t].id] = @ + 1]
    /\ uiMessage' = NoMessage
    /\ UNCHANGED <<activeUploads, rec, storage, saveQueue, Counters, cancelled,
                   pauseReturned, resumedShort, hist>>

\* cancelUpload, lines 276-288: the DELETE was answered (any status) or fetch
\* rejected, which the catch swallows.
CancelDeleteSettled(t, ok) ==
    /\ tasks[t].pc = "cancelDelete"
    /\ ok \in BOOLEAN
    /\ Commit(t, DeleteAndSave(Ctx(t), t))
    /\ UNCHANGED <<storage, Counters, Ghosts>>

\* ------------------------------------------------- processUpload's steps
\* processUpload, lines 100-114: getAuthToken has resolved, with a token or
\* with null (runtime.lastError).
TokenResolved(t, token) ==
    /\ tasks[t].pc = "token"
    /\ LET m  == Ctx(t)
           id == tasks[t].id
       IN  IF token = NULL
           THEN Commit(t, CatchError(m, t, "Authentication required"))
           ELSE IF rec[id].sessionUri = NULL
                THEN Commit(t, [m EXCEPT !.tk.pc = "init"])
                ELSE Commit(t, UploadChunks(m, t))
    /\ UNCHANGED <<storage, Counters, Ghosts>>

\* What the session-open request can end with: a success response with or
\* without a Location header, a non-success response, a rejected fetch.
InitOutcomes == {"location", "noLocation", "notOk", "rejected"}

\* initResumableUpload, lines 159-163: the value returned for a success response.
Location(outcome) == IF outcome = "location" THEN "uri" ELSE NULL

\* initResumableUpload, lines 145-163 and processUpload, lines 107-110: the
\* session-open request has settled.
InitSettled(t, outcome) ==
    /\ tasks[t].pc = "init"
    /\ LET m  == Ctx(t)
           id == tasks[t].id
       IN  IF outcome = "notOk"
           THEN Commit(t, CatchError(m, t, "Failed to initialize upload"))
           ELSE IF outcome = "rejected"
           THEN Commit(t, CatchError(m, t, "Failed to fetch"))
           ELSE Commit(t, SavePersistedState(
                    [m EXCEPT !.rec[id].sessionUri = Location(outcome),
                              !.rec[id].status = "uploading",
                              !.act = @ \cup {id},
                              !.tk.pc = "initSave"], t))
    /\ UNCHANGED <<storage, Counters, Ghosts>>

\* The response statuses a chunk request is answered with; Rejected stands
\* for a fetch that rejects (no response).
Rejected == 0

ChunkOutcomes == {308, 200, 201, 500, Rejected}

\* uploadChunk, lines 227-235: the statuses it returns normally for.
ChunkAccepted(outcome) == outcome \in {308, 200, 201}

\* The test for saving after a chunk (line 187).
SaveDue(u, endByte) == endByte % (chunkSize * SaveEvery) = 0 \/ endByte = u.size

\* A progress value that is the length of the chunk, not its end offset.
AckedBytesChunkLength(tk) == tk.endByte - tk.startByte

\* A progress value that adds a whole chunk to the start offset.
AckedBytesWholeChunk(tk) == tk.startByte + chunkSize

\* The value stored in upload.uploadedBytes after a chunk (line 182).
AckedBytes(tk) == tk.endByte

\* A next start offset that takes endByte for the last byte sent.
NextStartAfterEnd(tk) == tk.endByte + 1

\* The start of the next chunk (line 179).
NextStart(tk) == tk.endByte

\* uploadChunk, lines 227-232: the branch that returned for the response.
AckKind(outcome) == IF outcome = 308 THEN "incomplete" ELSE "success"

\* uploadChunk, lines 227-232: the request for [startByte, endByte) was
\* answered with a status uploadChunk returns normally for.
RecordAck(m, outcome) ==
    LET id == m.tk.id
        h  == m.hist[id]
    IN  IF ~h.kept THEN m ELSE
        [m EXCEPT !.hist[id] =
            [h EXCEPT !.ackTiled = h.ackTiled /\ m.tk.startByte = h.ackEnd,
                      !.ackEnd = m.tk.endByte,
                      !.finalAck = IF m.tk.endByte = m.rec[id].size
                                   THEN AckKind(outcome) ELSE h.finalAck]]

\* uploadChunks, lines 179-190: the chunk [startByte, endByte) was accepted.
ChunkDone(m, tid) ==
    LET id == m.tk.id
        m1 == [m EXCEPT !.tk.startByte = NextStart(m.tk),
                        !.rec[id].uploadedBytes = AckedBytes(m.tk),
                        !.act = @ \cup {id}]
    IN  IF SaveDue(m.rec[id], m.tk.endByte)
        THEN SavePersistedState([m1 EXCEPT !.tk.pc = "chunkSave"], tid)
        ELSE RunLoop(m1, tid)

\* uploadChunk, lines 227-235 and uploadChunks, lines 179-203: the chunk
\* request has settled.
ChunkSettled(t, outcome) ==
    /\ tasks[t].pc = "chunk"
    /\ LET m == Ctx(t)
       IN  IF ChunkAccepted(outcome)
           THEN Commit(t, ChunkDone(RecordAck(m, outcome), t))
           ELSE IF outcome = Rejected
           THEN Commit(t, ChunkCatch(m, t, "Failed to fetch"))
           ELSE Commit(t, ChunkCatch(m, t, "Upload failed with status"))
    /\ UNCHANGED <<storage, Counters, Ghosts>>

\* uploadChunks, line 202: the retry delay has elapsed; the loop goes round.
RetryTimer(t) ==
    /\ tasks[t].pc = "retryWait"
    /\ Commit(t, RunLoop(Ctx(t), t))
    /\ UNCHANGED <<storage, Counters, Ghosts>>

\* ---------------------------------------------------------- persistence
\* The awaits of savePersistedState that a call of sendUpdateToUI follows
\* (lines 124, 133, 189, 197, 245, 258, 289); none follows those of
\* startUpload (line 80) and of the session negotiation (line 110).
NotifyingPcs == {"doneSave", "errSave", "chunkSave", "pausedSave", "pauseSave",
                 "resumeSave", "cancelSave"}

\* What the task does when the save it awaits has completed.
AfterSave(m0, tid) ==
    LET m == IF m0.tk.pc \in NotifyingPcs THEN SendUpdateToUI(m0) ELSE m0 IN
    CASE m.tk.pc = "startSave"  -> ProcessUpload(m, m.tk.file)
      [] m.tk.pc = "initSave"   -> UploadChunks(m, tid)
      [] m.tk.pc = "chunkSave"  -> RunLoop(m, tid)
      [] m.tk.pc = "pausedSave" -> Finalize(m, tid)
      [] m.tk.pc = "resumeSave" -> ProcessUpload(m, NULL)
      [] OTHER                  -> [m EXCEPT !.tk = FreeTask]

\* The oldest storage.local.set has completed: the snapshot is durable and
\* the task that awaits it goes on (tid 0: recoverInterruptedUploads, which
\* nothing follows).
SaveCompleted ==
    /\ saveQueue # <<>>
    /\ LET w == Head(saveQueue)
           t == w.tid
       IN  /\ storage' = w.snap
           /\ IF t = 0
              THEN /\ saveQueue' = Tail(saveQueue)
                   /\ uiMessage' = NoMessage
                   /\ UNCHANGED <<activeUploads, rec, tasks, Ghosts, hist>>
              ELSE /\ Commit(t, AfterSave([Ctx(t) EXCEPT !.q = Tail(saveQueue)], t))
                   /\ cancelled' = IF tasks[t].pc = "cancelSave"
                                   THEN cancelled \cup {tasks[t].id} ELSE cancelled
                   /\ pauseReturned' =
                          IF tasks[t].pc = "pauseSave" THEN pauseReturned \cup {tasks[t].id}
                          ELSE IF tasks[t].pc = "resumeSave" THEN pauseReturned \ {tasks[t].id}
                          ELSE pauseReturned
                   /\ resumedShort' =
                          IF /\ tasks[t].pc = "resumeSave"
                             /\ rec[tasks[t].id].uploadedBytes < rec[tasks[t].id].size
                          THEN resumedShort \cup {t} ELSE resumedShort
                   /\ UNCHANGED deletes
    /\ UNCHANGED Counters

\* A recovery that forgets the paused records.
RecoverUploadingOnly(u) ==
    IF u.status = "uploading" THEN [u EXCEPT !.status = "interrupted"] ELSE u

\* A recovery that marks every unfinished record, the initializing ones too.
RecoverUnfinished(u) ==
    IF u.status \in {"initializing", "uploading", "paused"}
    THEN [u EXCEPT !.status = "interrupted"] ELSE u

\* recoverInterruptedUploads, lines 46-52, on one loaded record.
Recover(u) ==
    IF u.status \in {"uploading", "paused"} THEN [u EXCEPT !.status = "interrupted"] ELSE u

\* The background script is stopped and started again: every task is gone;
\* of the saves still in the queue a prefix has become durable.  The
\* constructor and initialize (lines 6-15) then load the snapshot, recover
\* and issue the save, before any command is handled.
Restart ==
    /\ restarts < MaxRestarts
    /\ \E k \in 0..Len(saveQueue) :
          LET durable == IF k = 0 THEN storage ELSE saveQueue[k].snap
              loaded  == {id \in Ids : durable[id] # NoRecord}
              objs    == [id \in Ids |-> Recover(durable[id])]
          IN  /\ storage' = durable
              /\ activeUploads' = loaded
              /\ rec' = objs
              /\ saveQueue' = <<[tid |-> 0, snap |-> Snapshot(loaded, objs)]>>
    /\ tasks' = [t \in Tids |-> FreeTask]
    /\ restarts' = restarts + 1
    /\ pauseReturned' = {}
    /\ resumedShort' = {}
    /\ uiMessage' = NoMessage
    /\ hist' = [id \in Ids |-> [hist[id] EXCEPT !.clean = @ /\ ~hist[id].kept]]
    /\ UNCHANGED <<nextId, nextTid, cancelled, deletes>>

\* ------------------------------------------------------- specification
Next ==
    \/ \E size \in FileSizes, file \in StartFiles : StartUpload(size, file)
    \/ \E id \in Ids : PauseUpload(id)
    \/ \E id \in Ids : ResumeUpload(id)
    \/ \E id \in Ids : CancelUpload(id)
    \/ \E t \in Tids : CancelTokenResolved(t)
    \/ \E t \in Tids, ok \in BOOLEAN : CancelDeleteSettled(t, ok)
    \/ \E t \in Tids, token \in {"token", NULL} : TokenResolved(t, token)
    \/ \E t \in Tids, outcome \in InitOutcomes : InitSettled(t, outcome)
    \/ \E t \in Tids, outcome \in ChunkOutcomes : ChunkSettled(t, outcome)
    \/ \E t \in Tids : RetryTimer(t)
    \/ SaveCompleted
    \/ Restart

Spec == Init /\ [][Next]_vars

\* The same program, with the history of every upload's chunk requests kept.
InitHistory ==
    /\ InitProgram
    /\ hist = [id \in Ids |-> NoHistory]
SpecHistory == InitHistory /\ [][Next]_vars

\* ============================================================== claims
\* The await points of processUpload from its entry to the end of its call
\* of uploadChunks: a task at one of them runs the transfer of its upload.
TransferPcs == {"token", "init", "initSave", "chunk", "chunkSave", "retryWait",
                "pausedSave"}

TransferTasks(id) == {t \in Tids : tasks[t].id = id /\ tasks[t].pc \in TransferPcs}

ChunksInFlight(id) == {t \in Tids : tasks[t].id = id /\ tasks[t].pc = "chunk"}

\* Task t issues a chunk request in this step.
NewChunkRequest(t) ==
    /\ tasks'[t].pc = "chunk"
    /\ tasks[t].pc # "chunk" \/ tasks'[t].startByte # tasks[t].startByte

RestartStep == restarts' # restarts

\* C1: once cancelUpload(id) has returned true, the registry never again
\* holds a record with that id.
C1_CancelledStaysRemoved == \A id \in cancelled : id \notin activeUploads

\* C2: in every step of a running manager (start, pause, resume, chunk
\* acknowledgement, retry, under any interleaving) no record's uploadedBytes
\* decreases.
C2_UploadedBytesMonotone ==
    [][~RestartStep =>
          \A id \in Ids : rec'[id].uploadedBytes >= rec[id].uploadedBytes]_vars

\* C2 witness: progress was made on an upload that was paused and resumed
\* while its loop was still running.
C2_Witness ==
    \E id \in Ids, t1, t2 \in Tids :
        /\ rec[id].uploadedBytes >= 2 * chunkSize
        /\ tasks[t1].id = id /\ tasks[t1].file = "blob" /\ tasks[t1].pc = "chunk"
        /\ tasks[t2].id = id /\ tasks[t2].file = NULL /\ tasks[t2].pc = "token"

\* C3: every record, in memory and in the snapshot, has
\* 0 <= uploadedBytes <= file.size.
C3_UploadedBytesInRange ==
    \A id \in Ids :
        /\ 0 <= rec[id].uploadedBytes /\ rec[id].uploadedBytes <= rec[id].size
        /\ 0 <= storage[id].uploadedBytes /\ storage[id].uploadedBytes <= storage[id].size

\* C3 witness: the last, short chunk of a file whose size is no multiple of
\* chunkSize was acknowledged.
C3_Witness ==
    \E id \in Ids :
        /\ rec[id].size % chunkSize # 0
        /\ rec[id].uploadedBytes = rec[id].size

\* C4: a restart leaves every loaded record that was uploading or paused in
\* status interrupted, and an interrupted record of the registry keeps that
\* status in every step but an accepted resumeUpload for it; it leaves the
\* registry only by cancelUpload.
C4_InterruptedUntilResume ==
    [][/\ RestartStep =>
             \A id \in Ids :
                 storage'[id].status \in {"uploading", "paused", "interrupted"} =>
                     id \in activeUploads' /\ rec'[id].status = "interrupted"
       /\ \A id \in Ids :
             (id \in activeUploads /\ rec[id].status = "interrupted") =>
                 \/ id \in activeUploads' /\ rec'[id].status = "interrupted"
                 \/ ResumeUpload(id) /\ rec'[id].status = "uploading"
                 \/ /\ id \notin activeUploads'
                    /\ \E t \in Tids : /\ tasks'[t].id = id
                                       /\ tasks'[t].pc = "cancelSave"
                                       /\ tasks[t].pc # "cancelSave"]_vars

\* C4 witness: a record that had made progress is interrupted after a restart.
C4_Witness ==
    \E id \in Ids :
        /\ restarts > 0
        /\ id \in activeUploads
        /\ rec[id].status = "interrupted"
        /\ rec[id].uploadedBytes > 0

\* C5: when the task started by an accepted resumeUpload has its token and
\* bytes remain to be sent, its next step is a chunk request that starts at
\* the record's uploadedBytes.
C5_ResumeContinuesAtOffset ==
    [][\A t \in Tids :
          LET id == tasks[t].id IN
          (/\ tasks[t].pc = "token" /\ tasks[t].file = NULL
           /\ TokenResolved(t, "token")
           /\ id \in activeUploads
           /\ rec[id].sessionUri # NULL
           /\ rec[id].status = "uploading"
           /\ rec[id].uploadedBytes < rec[id].size)
          => (tasks'[t].pc = "chunk" /\ tasks'[t].startByte = rec[id].uploadedBytes)]_vars

\* C6: for each upload at most one chunk request is in flight and at most
\* one processUpload task is active.
C6_OneTransferPerUpload ==
    \A id \in Ids :
        /\ Cardinality(ChunksInFlight(id)) <= 1
        /\ Cardinality(TransferTasks(id)) <= 1

\* C7: over the whole run at most one DELETE request is issued to the
\* session of an upload, and none for a record without session URI.
C7_OneDeletePerSession ==
    [][\A id \in Ids :
          /\ deletes'[id] <= 1
          /\ deletes'[id] > deletes[id] => rec[id].sessionUri # NULL]_vars

\* C8: a completed record, in memory and in the snapshot, has
\* uploadedBytes = file.size and its endTime set.
C8_CompletedIsWhole ==
    \A id \in Ids :
        /\ rec[id].status = "completed" =>
               rec[id].uploadedBytes = rec[id].size /\ rec[id].endTime # NULL
        /\ storage[id].status = "completed" =>
               storage[id].uploadedBytes = storage[id].size /\ storage[id].endTime # NULL

\* C8 witness: a file of several chunks is completed.
C8_Witness ==
    \E id \in Ids :
        /\ rec[id].status = "completed"
        /\ rec[id].size > chunkSize
        /\ storage[id].status = "completed"

\* C9: a completed record of the registry keeps status completed in every
\* step of the running manager.
C9_CompletedIsFinal ==
    [][~RestartStep =>
          \A id \in Ids :
              (id \in activeUploads /\ rec[id].status = "completed"
               /\ id \in activeUploads') => rec'[id].status = "completed"]_vars

\* C10 as claimed: between a pauseUpload(id) that returned true and the next
\* resumeUpload(id) that returns true, no chunk request is started for id.
C10_NoChunkUntilResumeReturns ==
    [][\A t \in Tids : NewChunkRequest(t) => tasks'[t].id \notin pauseReturned]_vars

\* C10 as amended: no chunk request is started while the record's status is
\* paused; a chunk request is started only for a record in status uploading.
C10_NoChunkWhilePaused ==
    [][\A t \in Tids :
          NewChunkRequest(t) =>
              /\ rec[tasks'[t].id].status # "paused"
              /\ rec'[tasks'[t].id].status = "uploading"]_vars

\* C10 witness: pauseUpload has returned true for an upload with bytes left,
\* the record is paused and its loop has ended without a further request.
C10_Witness ==
    \E id \in pauseReturned :
        /\ rec[id].status = "paused"
        /\ rec[id].uploadedBytes > 0
        /\ rec[id].uploadedBytes < rec[id].size
        /\ \A t \in Tids : tasks[t].id # id

\* C11: once cancelUpload(id) has returned true, no task sends a further chunk
\* request for id.
C11_NoChunkAfterCancel ==
    [][\A t \in Tids : NewChunkRequest(t) => tasks'[t].id \notin cancelled]_vars

\* The async call of task t returns in this step of the running manager.
Returns(t, pc) == tasks[t].pc = pc /\ tasks'[t].pc # pc /\ ~RestartStep

\* C12: pauseUpload(id) is accepted exactly for a record of the registry in
\* status uploading: it then sets the status to paused, issues a save of it
\* and returns true once the save is done; a status becomes paused in no other
\* step.  For any other status and for an unknown id, pauseUpload changes
\* neither the registry nor the durable snapshot, and issues no save.
C12_PauseOnlyUploading ==
    [][\A id \in Ids :
          /\ PauseUpload(id) =>
                IF id \in activeUploads /\ rec[id].status = "uploading"
                THEN /\ rec'[id].status = "paused"
                     /\ id \in activeUploads'
                     /\ Len(saveQueue') = Len(saveQueue) + 1
                     /\ saveQueue'[Len(saveQueue')].snap[id].status = "paused"
                     /\ \E t \in Tids : /\ tasks[t].pc = "free"
                                        /\ tasks'[t].pc = "pauseSave"
                                        /\ tasks'[t].id = id
                ELSE UNCHANGED <<activeUploads, rec, storage, saveQueue, tasks>>
          /\ (rec'[id].status = "paused" /\ rec[id].status # "paused") =>
                /\ id \in activeUploads /\ rec[id].status = "uploading"
                /\ PauseUpload(id)
          /\ \A t \in Tids :
                (Returns(t, "pauseSave") /\ tasks[t].id = id) =>
                    /\ id \in pauseReturned'
                    /\ UNCHANGED <<activeUploads, rec>>]_vars

\* C12 witness: pauseUpload has returned true for an upload with bytes left
\* and the snapshot holds the paused record, while the other upload is not
\* in status uploading.
C12_Witness ==
    \E id \in pauseReturned :
        /\ id \in activeUploads
        /\ rec[id].status = "paused"
        /\ storage[id].status = "paused"
        /\ \E other \in activeUploads : rec[other].status \notin {"uploading", "paused"}

\* C13: resumeUpload(id) is accepted exactly for a record of the registry in
\* status paused or interrupted: it then sets the status to uploading, issues
\* a save and, once the save is done, starts processUpload and returns true.
\* For any other status and for an unknown id, resumeUpload starts no task
\* and changes neither the registry nor the snapshot.
C13_ResumeOnlyPausedOrInterrupted ==
    [][\A id \in Ids :
          /\ ResumeUpload(id) =>
                IF id \in activeUploads /\ rec[id].status \in {"paused", "interrupted"}
                THEN /\ rec'[id].status = "uploading"
                     /\ id \in activeUploads'
                     /\ Len(saveQueue') = Len(saveQueue) + 1
                     /\ saveQueue'[Len(saveQueue')].snap[id].status = "uploading"
                     /\ \E t \in Tids : /\ tasks[t].pc = "free"
                                        /\ tasks'[t].pc = "resumeSave"
                                        /\ tasks'[t].id = id
                ELSE UNCHANGED <<activeUploads, rec, storage, saveQueue, tasks>>
          /\ \A t \in Tids :
                (tasks'[t].pc = "resumeSave" /\ tasks[t].pc # "resumeSave"
                 /\ tasks'[t].id = id) =>
                    /\ id \in activeUploads
                    /\ rec[id].status \in {"paused", "interrupted"}
          /\ \A t \in Tids :
                (Returns(t, "resumeSave") /\ tasks[t].id = id /\ id \in activeUploads) =>
                    /\ tasks'[t].id = id
                    /\ tasks'[t].file = NULL
                    /\ tasks'[t].pc \in {"token", "errSave"}]_vars

\* C13 witness: the task that an accepted resumeUpload of an interrupted
\* record started is running, and the other upload is in a status that
\* resumeUpload refuses.
C13_Witness ==
    \E t \in Tids :
        /\ tasks[t].pc = "token" /\ tasks[t].file = NULL
        /\ restarts > 0
        /\ rec[tasks[t].id].status = "uploading"
        /\ \E other \in activeUploads :
              rec[other].status \in {"initializing", "completed", "error", "uploading"}
              /\ other # tasks[t].id

\* processUpload, lines 100-103 and 107: getAuthToken yields no token, or the
\* session-open request is answered with a non-success response.
AuthOrInitFailure(t) == TokenResolved(t, NULL) \/ InitSettled(t, "notOk")

\* The messages of the errors thrown at lines 102 and 159.
AuthOrInitErrors == {"Authentication required", "Failed to initialize upload"}

\* C14: when getAuthToken yields no token or the session-open request gets a
\* non-success response, the step sets the upload's status to error with an
\* error message, sends no chunk request and leaves the other uploads and
\* their tasks alone; the upload then keeps status error for as long as the
\* manager runs, and the failed task sends no chunk request later.
C14_AuthOrInitFailureEndsInError ==
    [][/\ \A t \in Tids :
             AuthOrInitFailure(t) =>
                 LET id == tasks[t].id IN
                 /\ rec'[id].status = "error"
                 /\ rec'[id].error \in AuthOrInitErrors
                 /\ tasks'[t].pc = "errSave"
                 /\ \A other \in Ids \ {id} :
                        /\ rec'[other] = rec[other]
                        /\ other \in activeUploads' <=> other \in activeUploads
                 /\ \A o \in Tids \ {t} : tasks'[o] = tasks[o]
       /\ \A t \in Tids :
             (tasks[t].pc = "errSave" /\ tasks'[t].pc # "errSave") => tasks'[t].pc = "free"
       /\ \A id \in Ids :
             (rec[id].status = "error" /\ rec[id].error \in AuthOrInitErrors
              /\ ~RestartStep) => rec'[id].status = "error"]_vars

\* The awaits of the saves that follow a state-affecting change of a command
\* or a status transition of processUpload (lines 80, 110, 121, 132, 244,
\* 257, 288).
ChangeSavePcs == {"startSave", "initSave", "doneSave", "errSave", "pauseSave",
                  "resumeSave", "cancelSave"}

\* The save that task t awaits is done and the task goes on, in a step of the
\* running manager.
SaveDone(t) == tasks[t].pc \in ChangeSavePcs /\ tasks'[t].pc # tasks[t].pc /\ ~RestartStep

\* C15: every state-affecting change of startUpload, pauseUpload,
\* resumeUpload, cancelUpload and every status transition of processUpload has
\* issued a save, and when that save is done one uploadUpdated message is sent
\* for the upload, carrying the record or, after a cancel, reporting its removal.
C15_ChangeSavedAndNotified ==
    [][\A t \in Tids :
          SaveDone(t) =>
              /\ uiMessage'.id = tasks[t].id
              /\ uiMessage'.upload = IF tasks[t].pc = "cancelSave" THEN NoRecord
                                     ELSE rec[tasks[t].id]]_vars

\* cancelUpload has deleted the record of id (line 287) and awaits its save
\* or has returned true.
RemovedByCancel(id) ==
    id \in cancelled \/ \E t \in Tids : tasks[t].id = id /\ tasks[t].pc = "cancelSave"

C17_SentRangesTile ==
    \A id \in activeUploads :
        (hist[id].kept /\ rec[id].status = "completed") =>
            hist[id].sentTiled /\ hist[id].sentEnd = rec[id].size

\* C17 as amended: for a completed upload, the ranges of the chunk requests
\* that were acknowledged (answered 308, 200 or 201), in the order sent, each
\* start where the one before ended, the first at 0, and the last ends at
\* file.size.
C17_AckedRangesTile ==
    \A id \in activeUploads :
        (hist[id].kept /\ rec[id].status = "completed") =>
            hist[id].ackTiled /\ hist[id].ackEnd = rec[id].size

\* C17 witness: a file of several chunks is completed after a chunk request
\* that failed was sent again for the same range.
C17_Witness ==
    \E id \in activeUploads :
        /\ hist[id].kept
        /\ rec[id].status = "completed"
        /\ rec[id].size > chunkSize
        /\ ~hist[id].sentTiled
        /\ hist[id].ackEnd = rec[id].size

\* ceil(a / b) for b > 0.
CeilDiv(a, b) == (a + b - 1) \div b

\* C18: while no failure, pause, cancel or restart has touched an upload, its
\* k-th chunk request (k from 0) covers [k*C, min((k+1)*C, S)), and when the
\* record of a file of size S > 0 becomes completed exactly ceil(S/C) chunk
\* requests have been sent for it.
C18_CleanRunChunks ==
    [][/\ \A t \in Tids :
             LET id == tasks'[t].id IN
             (NewChunkRequest(t) /\ hist'[id].kept /\ hist'[id].clean) =>
                 LET k == hist[id].cleanSent IN
                 /\ hist'[id].cleanSent = k + 1
                 /\ tasks'[t].startByte = k * chunkSize
                 /\ tasks'[t].endByte = Min((k + 1) * chunkSize, rec[id].size)
       /\ \A id \in Ids :
             (hist'[id].kept /\ hist'[id].clean /\ rec'[id].size > 0
              /\ rec'[id].status = "completed") =>
                 hist'[id].cleanSent = CeilDiv(rec'[id].size, chunkSize)]_vars

\* C18 witness: a file of 12 MiB is completed after a run with no failure,
\* pause, cancel or restart, with three chunk requests sent, the last for
\* the 2 MiB from 10 MiB on.
C18_Witness ==
    \E id \in activeUploads :
        /\ hist[id].kept /\ hist[id].clean
        /\ rec[id].status = "completed"
        /\ rec[id].size = 12 * MiB
        /\ hist[id].cleanSent = 3
        /\ hist[id].sentEnd = 12 * MiB
        /\ hist[id].sentTiled

\* C19: the record of a completed upload had the request for its final chunk,
\* the one ending at file.size, answered with 200 or 201; a final chunk
\* answered with 308 or no chunk request at all does not complete it.
C19_CompletedAfterFinalSuccess ==
    \A id \in activeUploads :
        (hist[id].kept /\ rec[id].status = "completed") => hist[id].finalAck = "success"

\* C20: in a step of the running manager, a record of the registry leaves
\* status paused only by resumeUpload, which sets it to uploading, or by being
\* removed, and a status becomes completed only from uploading.
C20_PausedLeavesOnlyByCommand ==
    [][~RestartStep =>
          \A id \in Ids :
              /\ (id \in activeUploads /\ rec[id].status = "paused"
                  /\ id \in activeUploads' /\ rec'[id].status # "paused") =>
                      ResumeUpload(id) /\ rec'[id].status = "uploading"
              /\ (rec'[id].status = "completed" /\ rec[id].status # "completed") =>
                      rec[id].status = "uploading"]_vars

\* The chunk request of task t fails in this step: a response status other
\* than 308, 200 and 201, or a rejected fetch.
ChunkFailed(t) == \E outcome \in ChunkOutcomes \ {308, 200, 201} : ChunkSettled(t, outcome)

\* C21: a failed chunk request for [start, end) changes neither uploadedBytes
\* nor the status and leaves its task waiting for the retry delay with the
\* same range; when the delay has elapsed and the record is in the registry in
\* status uploading, the request is sent again for the same range, whatever
\* the number of attempts before; no other chunk request is sent for the upload
\* while the task waits.
C21_FailedChunkIsRetried ==
    [][\A t \in Tids :
          LET id == tasks[t].id IN
          /\ ChunkFailed(t) =>
                /\ rec'[id].uploadedBytes = rec[id].uploadedBytes
                /\ rec'[id].status = rec[id].status
                /\ tasks'[t] = [tasks[t] EXCEPT !.pc = "retryWait"]
          /\ (RetryTimer(t) /\ id \in activeUploads /\ rec[id].status = "uploading"
              /\ rec[id].sessionUri # NULL) =>
                /\ tasks'[t] = [tasks[t] EXCEPT !.pc = "chunk"]
                /\ rec'[id] = rec[id]
          /\ (tasks[t].pc = "retryWait" /\ id # 0) =>
                \A o \in Tids :
                    (NewChunkRequest(o) /\ tasks'[o].id = id) =>
                        /\ tasks'[o].startByte = tasks[t].startByte
                        /\ tasks'[o].endByte = tasks[t].endByte]_vars

\* C21 witness: a request that failed has been sent again, for the range
\* from 5 MiB on, and is in flight; the record is in status uploading with
\* uploadedBytes at the start of the range.
C21_Witness ==
    \E t \in Tids :
        LET id == tasks[t].id IN
        /\ tasks[t].pc = "chunk"
        /\ tasks[t].startByte = chunkSize
        /\ hist[id].kept /\ ~hist[id].sentTiled
        /\ hist[id].sentEnd = tasks[t].endByte
        /\ hist[id].ackEnd = tasks[t].startByte
        /\ rec[id].status = "uploading"
        /\ rec[id].uploadedBytes = tasks[t].startByte

\* processUpload of task t calls uploadChunks in this step (line 114): its
\* token has arrived for a record with a session URI, or the save after the
\* session negotiation is done.
EntersUploadChunks(t) ==
    \/ tasks[t].pc = "token" /\ rec[tasks[t].id].sessionUri # NULL /\ TokenResolved(t, "token")
    \/ tasks[t].pc = "initSave" /\ tasks'[t].pc # "initSave" /\ ~RestartStep

\* C22: the task that a resumeUpload started, which returned true for a
\* record with uploadedBytes < file.size, has no file: it sends no chunk
\* request, and when it comes to the transfer loop with the record still in
\* the registry in status uploading, the status becomes error with an error
\* message.
C22_ResumedTaskEndsInError ==
    [][\A t \in resumedShort :
          LET id == tasks[t].id IN
          /\ tasks'[t].pc # "chunk"
          /\ (EntersUploadChunks(t) /\ id \in activeUploads /\ rec[id].status = "uploading") =>
                /\ rec'[id].status = "error"
                /\ rec'[id].error # NULL]_vars

\* The registry holds id in status initializing and no task works on it: the
\* record was loaded in that status at a restart.
LoadedInitializing(id) ==
    /\ id \in activeUploads
    /\ rec[id].status = "initializing"
    /\ \A t \in Tids : tasks[t].id # id

\* C23: a record whose durable status is initializing at a restart is loaded
\* with status initializing and no task; pauseUpload and resumeUpload on such
\* a record change nothing; in every step it stays as it is or leaves the
\* registry, which only cancelUpload and a restart that loads a snapshot
\* without it bring about.
C23_InitializingStaysStuck ==
    [][\A id \in Ids :
          /\ (RestartStep /\ storage'[id].status = "initializing") => LoadedInitializing(id)'
          /\ LoadedInitializing(id) =>
                /\ PauseUpload(id) => UNCHANGED vars
                /\ ResumeUpload(id) => UNCHANGED vars
                /\ \/ LoadedInitializing(id)' /\ rec'[id] = rec[id]
                   \/ /\ id \notin activeUploads'
                      /\ \/ RestartStep
                         \/ CancelUpload(id) /\ rec'[id] = rec[id]]_vars

\* C23 witness: after a restart and the save of the recovery, the registry
\* and the snapshot hold a record in status initializing that no task works
\* on, next to a record that the recovery has marked interrupted.
C23_Witness ==
    \E id \in Ids :
        /\ restarts > 0
        /\ saveQueue = <<>>
        /\ LoadedInitializing(id)
        /\ storage[id].status = "initializing"
        /\ \E other \in activeUploads : rec[other].status = "interrupted"

\* C24: for every upload, the uploadedBytes of the durable snapshot is at most
\* the uploadedBytes of every snapshot still being written, which is at most
\* the uploadedBytes in memory, which is at most the end offset the server
\* has acknowledged; so a record loaded at a restart claims no more progress
\* than was acknowledged.
C24_SnapshotNotAheadOfAcks ==
    \A id \in Ids :
        hist[id].kept =>
            /\ hist[id].ackTiled
            /\ rec[id].uploadedBytes <= hist[id].ackEnd
            /\ storage[id].uploadedBytes <= hist[id].ackEnd
            /\ \A i \in 1..Len(saveQueue) :
                  /\ saveQueue[i].snap[id].uploadedBytes <= rec[id].uploadedBytes
                  /\ storage[id].uploadedBytes <= saveQueue[i].snap[id].uploadedBytes
                        \/ saveQueue[i].snap[id] = NoRecord

\* C24 witness: after a restart, a record was loaded with some progress, but
\* with less than the server had acknowledged.
C24_Witness ==
    \E id \in activeUploads :
        /\ hist[id].kept
        /\ restarts > 0
        /\ rec[id].status = "interrupted"
        /\ rec[id].uploadedBytes > 0
        /\ rec[id].uploadedBytes < hist[id].ackEnd
        /\ storage[id].uploadedBytes = rec[id].uploadedBytes

====
